---- MODULE Spec2Model ----
(***************************************************************************)
(* Model of keras_contrib/applications/densenet.py: the two network        *)
(* assemblers DenseNet and DenseNetFCN, the graph builder                  *)
(* __create_dense_net and the helpers __conv_block, __transition_block and *)
(* __dense_block.  A computation graph is a sequence of layer nodes; a     *)
(* tensor is the index of the node that produced it.                       *)
(*                                                                         *)
(* Encodings: Python None of an optional number or shape is the empty      *)
(* sequence and a present value v is <<v>>; None of a string parameter is  *)
(* the string "None".  reduction is held in percent, dropout_rate in       *)
(* per-mille and weight_decay in units of 1e-6, so that the arithmetic of  *)
(* the source stays integer arithmetic.                                    *)
(***************************************************************************)
EXTENDS Integers, Sequences, FiniteSets, TLC

VARIABLES fn, args, env, pc, err, graph, x, nb_layers, final_nb_layer,
          nb_filter, block_idx, dense_calls, events,
          emitted, ret, skip_list, concat_list, out_shape, up_calls,
          bottleneck_nb_layers

vars == <<fn, args, env, pc, err, graph, x, nb_layers, final_nb_layer,
          nb_filter, block_idx, dense_calls, events,
          emitted, ret, skip_list, concat_list, out_shape, up_calls,
          bottleneck_nb_layers>>

\* the locals of __create_fcn_dense_net that __create_dense_net does not have
fcnvars == <<skip_list, concat_list, out_shape, up_calls, bottleneck_nb_layers>>

\* ------------------------------------------------------------------ bounds
MaxDenseBlock == 3
MaxDepth == 13
MaxLayersPerBlock == 3
MaxListEntry == 2
MaxBlockLayers == 3
MaxFcnBlocks == 2
MaxFcnLayers == 3

\* ------------------------------------------------------- python primitives
None == <<>>

Some(v) == <<v>>

IsNone(o) == o = <<>>

Val(o) == o[1]

\* int(a / b) under true division: truncation toward zero
TruncDiv(a, b) == IF a >= 0 THEN a \div b ELSE -((-a) \div b)

\* range(n): the indices 0..n-1, empty when n <= 0
RangeLen(n) == IF n > 0 THEN n ELSE 0

\* a raised exception: its class and its message
Exc(type, msg) == [type |-> type, msg |-> msg]

NoErr == Exc("none", "")

\* ------------------------------------------------------------------ graph
Node(op, ins, ch, cfg) == [op |-> op, ins |-> ins, ch |-> ch, cfg |-> cfg]

Apply(g, op, ins, ch, cfg) == Append(g, Node(op, ins, ch, cfg))

Ch(g, t) == g[t].ch

RECURSIVE SumCh(_, _)
SumCh(g, ts) == IF ts = <<>> THEN 0 ELSE Ch(g, Head(ts)) + SumCh(g, Tail(ts))

\* merge(list, mode='concat'): the channels of the inputs add up
Merge(g, ts) == Apply(g, "Concat", ts, SumCh(g, ts), "")

\* names bound by the import statements of the module
Imported == {"Model", "Dense", "Dropout", "Activation", "Reshape", "Conv2D",
             "Conv2DTranspose", "UpSampling2D", "AveragePooling2D",
             "GlobalAveragePooling2D", "Input", "merge", "concatenate",
             "BatchNormalization", "l2", "convert_all_kernels_in_model",
             "get_file", "get_source_inputs", "_obtain_input_shape", "K",
             "SubPixelUpscaling", "warnings"}

\* a layer to be called on the tensor produced just before it
Layer(op, ch, cfg) == [op |-> op, ch |-> ch, cfg |-> cfg]

\* x = L1(ip); x = L2(x); ...: the output tensor is the last node
Stack(g, ip, layers) ==
    g \o [k \in 1..Len(layers) |->
            Node(layers[k].op, <<IF k = 1 THEN ip ELSE Len(g) + k - 1>>,
                 layers[k].ch, layers[k].cfg)]

\* if dropout_rate: x = Dropout(dropout_rate)(x)
DropoutIf(dropout_rate, ch) ==
    IF dropout_rate # 0 THEN <<Layer("Dropout", ch, "")>> ELSE <<>>

\* __conv_block: the output tensor is the last node of the result
ConvBlock(g, ip, filters, bottleneck, dropout_rate) ==
    LET inter_channel == filters * 4
    IN  Stack(g, ip,
              <<Layer("BatchNormalization", Ch(g, ip), ""),
                Layer("Activation", Ch(g, ip), "relu")>>
              \o (IF bottleneck
                  THEN <<Layer("Conv2D", inter_channel, "1x1")>>
                       \o DropoutIf(dropout_rate, inter_channel)
                       \o <<Layer("BatchNormalization", inter_channel, ""),
                            Layer("Activation", inter_channel, "relu")>>
                  ELSE <<>>)
              \o <<Layer("Conv2D", filters, "3x3")>>
              \o DropoutIf(dropout_rate, filters))

\* __transition_block: [g, err]; MaxPooling2D is looked up when it is called
TransitionBlock(g, ip, filters, compression_pct, dropout_rate, pooling) ==
    LET out == TruncDiv(filters * compression_pct, 100)
        g4 == Stack(g, ip,
                    <<Layer("BatchNormalization", Ch(g, ip), ""),
                      Layer("Activation", Ch(g, ip), "relu"),
                      Layer("Conv2D", out, "transition")>>
                    \o DropoutIf(dropout_rate, out))
    IN  IF pooling = "avg"
        THEN [g |-> Stack(g4, Len(g4), <<Layer("AveragePooling2D", out, "2x2/2")>>),
              err |-> NoErr]
        ELSE IF pooling = "max"
        THEN IF "MaxPooling2D" \in Imported
             THEN [g |-> Stack(g4, Len(g4), <<Layer("MaxPooling2D", out, "2x2/2")>>),
                   err |-> NoErr]
             ELSE [g |-> g4, err |-> Exc("NameError", "name 'MaxPooling2D' is not defined")]
        ELSE [g |-> g4, err |-> NoErr]

\* mutant of DenseBlockStep: nb_filter grows whatever grow_nb_filters says
DenseBlockStepAlwaysGrows(st, growth_rate, bottleneck, dropout_rate, grow_nb_filters) ==
    LET g1 == ConvBlock(st.g, st.x, growth_rate, bottleneck, dropout_rate)
        x_list == Append(st.x_list, Len(g1))
        g2 == Merge(g1, x_list)
    IN  [g |-> g2, x |-> Len(g2), x_list |-> x_list,
         nb_filter |-> st.nb_filter + growth_rate]

\* one iteration of the loop of __dense_block
DenseBlockStep(st, growth_rate, bottleneck, dropout_rate, grow_nb_filters) ==
    LET g1 == ConvBlock(st.g, st.x, growth_rate, bottleneck, dropout_rate)
        x_list == Append(st.x_list, Len(g1))
        g2 == Merge(g1, x_list)
    IN  [g |-> g2, x |-> Len(g2), x_list |-> x_list,
         nb_filter |-> IF grow_nb_filters THEN st.nb_filter + growth_rate
                       ELSE st.nb_filter]

RECURSIVE DenseBlockLoop(_, _, _, _, _, _)
DenseBlockLoop(st, n, growth_rate, bottleneck, dropout_rate, grow_nb_filters) ==
    IF n = 0 THEN st
    ELSE DenseBlockStep(
             DenseBlockLoop(st, n - 1, growth_rate, bottleneck, dropout_rate,
                            grow_nb_filters),
             growth_rate, bottleneck, dropout_rate, grow_nb_filters)

\* __dense_block: [g, x, x_list, nb_filter]
DenseBlock(g, ip, layers, filters, growth_rate, bottleneck, dropout_rate, grow_nb_filters) ==
    DenseBlockLoop([g |-> g, x |-> ip, x_list |-> <<ip>>, nb_filter |-> filters],
                   RangeLen(layers), growth_rate, bottleneck, dropout_rate,
                   grow_nb_filters)

\* ------------------------------------------------------- module constants
TH_WEIGHTS_PATH ==
    "https://github.com/titu1994/DenseNet/releases/download/v2.0/DenseNet-40-12-Theano-Backend-TH-dim-ordering.h5"

TF_WEIGHTS_PATH ==
    "https://github.com/titu1994/DenseNet/releases/download/v2.0/DenseNet-40-12-Tensorflow-Backend-TF-dim-ordering.h5"

TH_WEIGHTS_PATH_NO_TOP ==
    "https://github.com/titu1994/DenseNet/releases/download/v2.0/DenseNet-40-12-Theano-Backend-TH-dim-ordering-no-top.h5"

TF_WEIGHTS_PATH_NO_TOP ==
    "https://github.com/titu1994/DenseNet/releases/download/v2.0/DenseNet-40-12-Tensorflow-Backend-TF-dim-ordering-no-top.h5"

\* ---------------------------------------------------------------- inputs
IntLayers(n) == [kind |-> "int", val |-> n, items |-> <<>>]

ListLayers(kind, items) == [kind |-> kind, val |-> 0, items |-> items]

IsListOrTuple(l) == l.kind = "list" \/ l.kind = "tuple"

\* the keyword defaults of DenseNet (src lines 38-47); the fields after
\* activation are the extra keywords of DenseNetFCN (lines 217-227) and the
\* arguments of a direct __dense_block call
DefaultArgs ==
    [input_shape |-> None, depth |-> Some(40), nb_dense_block |-> 3,
     growth_rate |-> 12, nb_filter |-> 16, nb_layers_per_block |-> IntLayers(-1),
     bottleneck |-> FALSE, reduction |-> 0, dropout_rate |-> 0,
     weight_decay |-> 100, include_top |-> TRUE, top |-> "classification",
     weights |-> "cifar10", classes |-> 10, transition_pooling |-> "avg",
     activation |-> "softmax",
     init_conv_filters |-> 48, upsampling_conv |-> 128,
     upsampling_type |-> "upsampling", batchsize |-> None,
     in_channels |-> 0, nb_layers |-> 0, grow_nb_filters |-> TRUE]

Envs == [image_data_format : {"channels_first", "channels_last"},
         backend : {"tensorflow", "theano", "cntk"}]

\* all sequences over 1..MaxListEntry of length n
Lists(n) == [1..n -> 1..MaxListEntry]

IntSpecs == {IntLayers(n) : n \in {-1} \cup 1..MaxLayersPerBlock}

\* lists of the required length nb + 1 and of length nb, tuples of length nb + 1
ListSpecs(nb) ==
    {ListLayers("list", l) : l \in Lists(nb) \cup Lists(nb + 1)}
      \cup {ListLayers("tuple", l) : l \in Lists(nb + 1)}

Depths == {None} \cup {Some(d) : d \in 1..MaxDepth}

\* architecture family: DenseNet(weights=None, ...) with nb dense blocks over
\* depth, layers per block, bottleneck and transition pooling; a list of
\* layers is tried without a depth, with an accepted and a rejected depth
ArchArgs(nb) ==
    {[DefaultArgs EXCEPT !.weights = "None", !.depth = c[1][1],
                         !.nb_dense_block = nb, !.nb_layers_per_block = c[1][2],
                         !.bottleneck = c[2], !.transition_pooling = c[3],
                         !.include_top = c[4]] :
        c \in ((Depths \X IntSpecs) \cup ({None, Some(4), Some(5)} \X ListSpecs(nb)))
              \X BOOLEAN \X {"avg", "max", "None"} \X BOOLEAN}

\* hyperparameter variants that differ from the published CIFAR-10 model
Variants ==
    {DefaultArgs,
     [DefaultArgs EXCEPT !.depth = Some(7)],
     [DefaultArgs EXCEPT !.depth = Some(7), !.top = "segmentation"],
     [DefaultArgs EXCEPT !.growth_rate = 4],
     [DefaultArgs EXCEPT !.nb_filter = -1],
     [DefaultArgs EXCEPT !.bottleneck = TRUE],
     [DefaultArgs EXCEPT !.reduction = 50],
     [DefaultArgs EXCEPT !.dropout_rate = 200],
     [DefaultArgs EXCEPT !.weight_decay = 500]}

\* call family: DenseNet over the validated keywords and the weight loading
CallArgs ==
    {[v EXCEPT !.weights = c[1], !.include_top = c[2], !.classes = c[3],
               !.activation = c[4], !.transition_pooling = c[5]] :
        v \in Variants,
        c \in {"cifar10", "None", "imagenet"} \X BOOLEAN \X {1, 10}
              \X {"softmax", "sigmoid", "relu"} \X {"avg", "max"}}

\* call family of DenseNetFCN (documented argument types)
FcnArgs ==
    {[DefaultArgs EXCEPT !.weights = c[1], !.upsampling_type = c[2],
                         !.batchsize = c[3], !.input_shape = c[4],
                         !.activation = c[5], !.classes = c[6],
                         !.nb_dense_block = d[1], !.nb_layers_per_block = d[2],
                         !.include_top = d[3],
                         !.growth_rate = 16, !.depth = None, !.nb_filter = 0] :
        c \in {"None", "cifar10"} \X {"upsampling", "Deconv", "subpixel", "bilinear"}
              \X {None, Some(1)} \X {None, Some(<<32, 32, 3>>)}
              \X {"softmax", "sigmoid", "relu"} \X {1, 2},
        d \in {0, 2} \X {IntLayers(4), ListLayers("list", <<1, 2, 1>>)} \X BOOLEAN}

\* direct calls of __dense_block
BlockArgs ==
    {[DefaultArgs EXCEPT !.in_channels = c[1], !.nb_layers = c[2],
                         !.nb_filter = c[3], !.growth_rate = c[4],
                         !.bottleneck = c[5], !.dropout_rate = c[6],
                         !.grow_nb_filters = c[7]] :
        c \in {3, 16} \X (0..MaxBlockLayers) \X {16, 24} \X {4, 12}
              \X BOOLEAN \X {0, 200} \X BOOLEAN}

Start(f, a, e, p, g) ==
    /\ fn = f /\ args = a /\ env = e /\ pc = p /\ err = NoErr
    /\ graph = g /\ x = Len(g) /\ nb_layers = <<>> /\ final_nb_layer = 0
    /\ nb_filter = a.nb_filter /\ block_idx = 0 /\ dense_calls = <<>>
    /\ events = <<>>
    /\ emitted = <<>> /\ ret = None
    /\ skip_list = <<>> /\ concat_list = <<>> /\ out_shape = <<>> /\ up_calls = <<>>
    /\ bottleneck_nb_layers = 0

InitArch ==
    \E nb \in 1..MaxDenseBlock : \E a \in ArchArgs(nb) :
        Start("DenseNet", a, [image_data_format |-> "channels_last",
                              backend |-> "tensorflow"], "DenseNet", <<>>)

InitCall == \E a \in CallArgs, e \in Envs : Start("DenseNet", a, e, "DenseNet", <<>>)

InitFcn ==
    \E a \in FcnArgs :
        Start("DenseNetFCN", a, [image_data_format |-> "channels_last",
                                 backend |-> "tensorflow"], "DenseNetFCN", <<>>)

InitBlock ==
    \E a \in BlockArgs :
        Start("__dense_block", a, [image_data_format |-> "channels_last",
                                   backend |-> "tensorflow"], "__dense_block",
              <<Node("Input", <<>>, a.in_channels, "")>>)


Raise(e) == /\ pc' = "raised" /\ err' = e

\* ------------------------------------------------------------- DenseNet
\* mutant of DenseNetValidate: the classes check of the CIFAR-10 weights is
\* left out
DenseNetValidateNoClasses(a) ==
    IF a.weights \notin {"cifar10", "None"}
    THEN Exc("ValueError", "The weights argument should be either None or cifar10")
    ELSE IF a.activation \notin {"softmax", "sigmoid"}
    THEN Exc("ValueError", "activation must be one of softmax or sigmoid")
    ELSE IF a.activation = "sigmoid" /\ a.classes # 1
    THEN Exc("ValueError", "sigmoid activation can only be used when classes = 1")
    ELSE NoErr

\* the argument checks at the head of DenseNet
DenseNetValidate(a) ==
    IF a.weights \notin {"cifar10", "None"}
    THEN Exc("ValueError", "The weights argument should be either None or cifar10")
    ELSE IF a.weights = "cifar10" /\ a.include_top /\ a.classes # 10
    THEN Exc("ValueError", "If using weights as CIFAR 10 with include_top as true, classes should be 10")
    ELSE IF a.activation \notin {"softmax", "sigmoid"}
    THEN Exc("ValueError", "activation must be one of softmax or sigmoid")
    ELSE IF a.activation = "sigmoid" /\ a.classes # 1
    THEN Exc("ValueError", "sigmoid activation can only be used when classes = 1")
    ELSE NoErr

DenseNet_Validate ==
    /\ pc = "DenseNet"
    /\ IF DenseNetValidate(args) # NoErr
       THEN Raise(DenseNetValidate(args))
       ELSE /\ pc' = "input" /\ err' = err
    /\ UNCHANGED <<fn, args, env, graph, x, nb_layers, final_nb_layer,
                   nb_filter, block_idx, dense_calls, events>>
    /\ UNCHANGED <<emitted, ret, fcnvars>>

\* _obtain_input_shape of the framework, for the default and the given shape
ObtainInputShape(a, e) ==
    IF e.image_data_format = "channels_first" THEN <<3, 32, 32>> ELSE <<32, 32, 3>>

InputChannels(shape, e) ==
    IF e.image_data_format = "channels_first" THEN shape[1] ELSE shape[3]

\* input_shape = _obtain_input_shape(...); img_input = Input(shape=input_shape)
MakeInput(next) ==
    /\ args' = [args EXCEPT !.input_shape = Some(ObtainInputShape(args, env))]
    /\ graph' = Apply(graph, "Input", <<>>,
                      InputChannels(ObtainInputShape(args, env), env), "")
    /\ x' = Len(graph')
    /\ pc' = next
    /\ UNCHANGED <<fn, env, err, nb_layers, final_nb_layer, nb_filter,
                   block_idx, dense_calls, events>>
    /\ UNCHANGED <<emitted, ret, fcnvars>>

DenseNet_Input == pc = "input" /\ MakeInput("create_dense_net")

\* ---------------------------------------------------- __create_dense_net
\* assert (depth - 4) % 3 == 0
DepthAccepted(depth, nb_dense_block) == (depth - 4) % 3 = 0

CreateDenseNetCheck(a) ==
    IF ~IsNone(a.depth) /\ ~DepthAccepted(Val(a.depth), a.nb_dense_block)
    THEN Exc("AssertionError", "Depth must be nb_dense_block * N + 4")
    ELSE IF IsNone(a.depth) /\ a.nb_layers_per_block = IntLayers(-1)
    THEN Exc("AssertionError", "Depth cannot be None when nb_layers_per_block is -1")
    ELSE IF a.reduction # 0 /\ ~(a.reduction <= 100 /\ a.reduction > 0)
    THEN Exc("AssertionError", "reduction value must lie between 0.0 and 1.0")
    ELSE NoErr

CreateDenseNet_Check ==
    /\ pc = "create_dense_net"
    /\ IF CreateDenseNetCheck(args) # NoErr
       THEN Raise(CreateDenseNetCheck(args))
       ELSE /\ pc' = "nb_layers" /\ err' = err
    /\ UNCHANGED <<fn, args, env, graph, x, nb_layers, final_nb_layer,
                   nb_filter, block_idx, dense_calls, events>>
    /\ UNCHANGED <<emitted, ret, fcnvars>>

Front(s) == SubSeq(s, 1, Len(s) - 1)

Last(s) == s[Len(s)]

Repeat(v, n) == [i \in 1..RangeLen(n) |-> v]

\* nb_layers before the bottleneck halving, and final_nb_layer
LayersOf(a) ==
    IF IsListOrTuple(a.nb_layers_per_block)
    THEN [nb_layers |-> Front(a.nb_layers_per_block.items),
          final_nb_layer |-> Last(a.nb_layers_per_block.items)]
    ELSE IF a.nb_layers_per_block.val = -1
    THEN LET count == TruncDiv(Val(a.depth) - 4, 3)
         IN  [nb_layers |-> Repeat(count, a.nb_dense_block),
              final_nb_layer |-> count]
    ELSE [nb_layers |-> Repeat(a.nb_layers_per_block.val, a.nb_dense_block),
          final_nb_layer |-> a.nb_layers_per_block.val]

\* if bottleneck: nb_layers = [int(layer // 2) for layer in nb_layers]
Halve(a, layers) ==
    IF a.bottleneck THEN [i \in 1..Len(layers) |-> layers[i] \div 2] ELSE layers

CreateDenseNet_Layers ==
    /\ pc = "nb_layers"
    /\ IF /\ IsListOrTuple(args.nb_layers_per_block)
          /\ Len(args.nb_layers_per_block.items) # args.nb_dense_block + 1
       THEN /\ Raise(Exc("AssertionError", "list size must be (nb_dense_block + 1)"))
            /\ UNCHANGED <<nb_layers, final_nb_layer, nb_filter>>
       ELSE /\ nb_layers' = Halve(args, LayersOf(args).nb_layers)
            /\ final_nb_layer' = LayersOf(args).final_nb_layer
            /\ nb_filter' = IF nb_filter <= 0 THEN 2 * args.growth_rate ELSE nb_filter
            /\ pc' = "initial_conv" /\ err' = err
    /\ UNCHANGED <<fn, args, env, graph, x, block_idx, dense_calls, events>>
    /\ UNCHANGED <<emitted, ret, fcnvars>>

\* a block of the network and the nodes first..last it added to the graph
Emit(what, first, last) == [what |-> what, first |-> first, last |-> last]

CreateDenseNet_InitialConv ==
    /\ pc = "initial_conv"
    /\ graph' = Apply(graph, "Conv2D", <<x>>, nb_filter, "3x3")
    /\ x' = Len(graph')
    /\ block_idx' = 0
    /\ pc' = "blocks"
    /\ UNCHANGED <<fn, args, env, err, nb_layers, final_nb_layer, nb_filter,
                   dense_calls, events>>
    /\ emitted' = Append(emitted, Emit("initial_conv", Len(graph) + 1, Len(graph')))
    /\ UNCHANGED <<ret, fcnvars>>

Compression(a) == 100 - a.reduction

Called(layers, st) == [nb_layers |-> layers, conv_blocks |-> Len(st.x_list) - 1]

\* one pass of for block_idx in range(nb_dense_block - 1)
CreateDenseNet_Block ==
    /\ pc = "blocks"
    /\ block_idx < args.nb_dense_block - 1
    /\ LET d == DenseBlock(graph, x, nb_layers[block_idx + 1], nb_filter,
                           args.growth_rate, args.bottleneck, args.dropout_rate, TRUE)
           t == TransitionBlock(d.g, d.x, d.nb_filter, Compression(args),
                                args.dropout_rate, args.transition_pooling)
       IN  /\ graph' = t.g
           /\ x' = IF t.err # NoErr THEN d.x ELSE Len(t.g)
           /\ dense_calls' = Append(dense_calls, Called(nb_layers[block_idx + 1], d))
           /\ IF t.err # NoErr
              THEN /\ Raise(t.err)
                   /\ nb_filter' = d.nb_filter
                   /\ emitted' = Append(emitted,
                                        Emit("dense_block", Len(graph) + 1, Len(d.g)))
                   /\ UNCHANGED block_idx
              ELSE /\ nb_filter' = TruncDiv(d.nb_filter * Compression(args), 100)
                   /\ block_idx' = block_idx + 1
                   /\ emitted' = emitted
                         \o <<Emit("dense_block", Len(graph) + 1, Len(d.g)),
                              Emit("transition_block", Len(d.g) + 1, Len(t.g))>>
                   /\ UNCHANGED <<pc, err>>
    /\ UNCHANGED <<fn, args, env, nb_layers, final_nb_layer, events>>
    /\ UNCHANGED <<ret, fcnvars>>

\* mutant of CreateDenseNet_LastBlock: the last dense block gets a transition
\* block too, as if the loop ran over range(nb_dense_block)
CreateDenseNet_LastBlockWithTransition ==
    /\ pc = "blocks"
    /\ ~(block_idx < args.nb_dense_block - 1)
    /\ LET d == DenseBlock(graph, x, final_nb_layer, nb_filter, args.growth_rate,
                           args.bottleneck, args.dropout_rate, TRUE)
           t == TransitionBlock(d.g, d.x, d.nb_filter, Compression(args),
                                args.dropout_rate, "avg")
       IN  /\ graph' = t.g
           /\ x' = Len(t.g)
           /\ nb_filter' = d.nb_filter
           /\ dense_calls' = Append(dense_calls, Called(final_nb_layer, d))
           /\ emitted' = emitted
                 \o <<Emit("dense_block", Len(graph) + 1, Len(d.g)),
                      Emit("transition_block", Len(d.g) + 1, Len(t.g))>>
    /\ pc' = "top"
    /\ UNCHANGED <<fn, args, env, err, nb_layers, final_nb_layer, block_idx, events>>
    /\ UNCHANGED <<ret, fcnvars>>

\* the last dense block
CreateDenseNet_LastBlock ==
    /\ pc = "blocks"
    /\ ~(block_idx < args.nb_dense_block - 1)
    /\ LET d == DenseBlock(graph, x, final_nb_layer, nb_filter, args.growth_rate,
                           args.bottleneck, args.dropout_rate, TRUE)
       IN  /\ graph' = d.g
           /\ x' = d.x
           /\ nb_filter' = d.nb_filter
           /\ dense_calls' = Append(dense_calls, Called(final_nb_layer, d))
    /\ pc' = "top"
    /\ UNCHANGED <<fn, args, env, err, nb_layers, final_nb_layer, block_idx, events>>
    /\ emitted' = Append(emitted, Emit("dense_block", Len(graph) + 1, Len(graph')))
    /\ UNCHANGED <<ret, fcnvars>>

\* the classification and the segmentation top
Top(a, ch) ==
    IF a.include_top /\ a.top = "classification"
    THEN <<Layer("GlobalAveragePooling2D", ch, ""),
           Layer("Dense", a.classes, a.activation)>>
    ELSE IF a.include_top /\ a.top = "segmentation"
    THEN <<Layer("Conv2D", a.classes, "1x1"), Layer("Reshape", a.classes, ""),
           Layer("Activation", a.classes, a.activation),
           Layer("Reshape", a.classes, "")>>
    ELSE <<>>

CreateDenseNet_Top ==
    /\ pc = "top"
    /\ graph' = Stack(graph, x,
                      <<Layer("BatchNormalization", Ch(graph, x), ""),
                        Layer("Activation", Ch(graph, x), "relu")>>
                      \o Top(args, Ch(graph, x)))
    /\ x' = Len(graph')
    /\ pc' = "Model"
    /\ UNCHANGED <<fn, args, env, err, nb_layers, final_nb_layer, nb_filter,
                   block_idx, dense_calls, events>>
    /\ emitted' = emitted
            \o <<Emit("bn_relu", Len(graph) + 1, Len(graph) + 2)>>
            \o (IF Top(args, Ch(graph, x)) # <<>>
                THEN <<Emit("top", Len(graph) + 3, Len(graph'))>>
                ELSE <<>>)
    /\ ret' = Some(x')
    /\ UNCHANGED fcnvars

\* model = Model(inputs, x, name='densenet')
DenseNet_Model ==
    /\ pc = "Model"
    /\ fn = "DenseNet"
    /\ pc' = "load_weights"
    /\ UNCHANGED <<fn, args, env, err, graph, x, nb_layers, final_nb_layer,
                   nb_filter, block_idx, dense_calls, events>>
    /\ UNCHANGED <<emitted, ret, fcnvars>>

Event(op, fname, origin) == [op |-> op, fname |-> fname, origin |-> origin]

\* the published model: the hyperparameters the weight files were trained with
DefaultParametersMatch(a) ==
    /\ a.depth = Some(40) /\ a.nb_dense_block = 3 /\ a.growth_rate = 12
    /\ a.nb_filter = 16 /\ a.bottleneck = FALSE /\ a.reduction = 0
    /\ a.dropout_rate = 0 /\ a.weight_decay = 100

FetchAndLoad(fname, origin) ==
    <<Event("get_file", fname, origin), Event("load_weights", fname, "")>>

\* mutant of WeightEvents: the channels_first branch converts the kernels
\* for the theano backend instead of the tensorflow backend
WeightEventsWrongBackend(a, e) ==
    IF a.weights = "cifar10" /\ DefaultParametersMatch(a)
    THEN IF e.image_data_format = "channels_first"
         THEN (IF a.include_top
               THEN FetchAndLoad("densenet_40_12_th_dim_ordering_th_kernels.h5",
                                 TH_WEIGHTS_PATH)
               ELSE FetchAndLoad("densenet_40_12_th_dim_ordering_th_kernels_no_top.h5",
                                 TH_WEIGHTS_PATH_NO_TOP))
              \o (IF e.backend = "theano"
                  THEN <<Event("convert_all_kernels_in_model", "", "")>>
                  ELSE <<>>)
         ELSE (IF a.include_top
               THEN FetchAndLoad("densenet_40_12_tf_dim_ordering_tf_kernels.h5",
                                 TF_WEIGHTS_PATH)
               ELSE FetchAndLoad("densenet_40_12_tf_dim_ordering_tf_kernels_no_top.h5",
                                 TF_WEIGHTS_PATH_NO_TOP))
              \o (IF e.backend = "theano"
                  THEN <<Event("convert_all_kernels_in_model", "", "")>>
                  ELSE <<>>)
    ELSE <<>>

\* the side effects of the # load weights section, in program order
WeightEvents(a, e) ==
    IF a.weights = "cifar10" /\ DefaultParametersMatch(a)
    THEN IF e.image_data_format = "channels_first"
         THEN (IF a.include_top
               THEN FetchAndLoad("densenet_40_12_th_dim_ordering_th_kernels.h5",
                                 TH_WEIGHTS_PATH)
               ELSE FetchAndLoad("densenet_40_12_th_dim_ordering_th_kernels_no_top.h5",
                                 TH_WEIGHTS_PATH_NO_TOP))
              \o (IF e.backend = "tensorflow"
                  THEN <<Event("warn", "", ""),
                         Event("convert_all_kernels_in_model", "", "")>>
                  ELSE <<>>)
         ELSE (IF a.include_top
               THEN FetchAndLoad("densenet_40_12_tf_dim_ordering_tf_kernels.h5",
                                 TF_WEIGHTS_PATH)
               ELSE FetchAndLoad("densenet_40_12_tf_dim_ordering_tf_kernels_no_top.h5",
                                 TF_WEIGHTS_PATH_NO_TOP))
              \o (IF e.backend = "theano"
                  THEN <<Event("convert_all_kernels_in_model", "", "")>>
                  ELSE <<>>)
    ELSE <<>>

\* load the weights and return the model
DenseNet_LoadWeights ==
    /\ pc = "load_weights"
    /\ events' = events \o WeightEvents(args, env)
    /\ pc' = "returned"
    /\ UNCHANGED <<fn, args, env, err, graph, x, nb_layers, final_nb_layer,
                   nb_filter, block_idx, dense_calls>>
    /\ UNCHANGED <<emitted, ret, fcnvars>>

\* ---------------------------------------------------------- DenseNetFCN
\* str.lower() on the upsampling_type values that are passed
Lower(s) ==
    IF s = "Deconv" THEN "deconv"
    ELSE IF s = "Upsampling" THEN "upsampling"
    ELSE IF s = "Subpixel" THEN "subpixel"
    ELSE s

\* mutant of DenseNetFCNValidate: sigmoid is accepted with any classes
DenseNetFCNValidateAnyClasses(a) ==
    IF a.weights \notin {"None"}
    THEN Exc("ValueError", "The weights argument should be None")
    ELSE IF Lower(a.upsampling_type) \notin {"upsampling", "deconv", "subpixel"}
    THEN Exc("ValueError", "Parameter upsampling_type must be one of upsampling, deconv, or subpixel")
    ELSE IF Lower(a.upsampling_type) = "deconv" /\ IsNone(a.batchsize)
    THEN Exc("ValueError", "a fixed batch size must be provided in batchsize parameter")
    ELSE IF IsNone(a.input_shape)
    THEN Exc("ValueError", "For fully convolutional models, input shape must be supplied")
    ELSE IF a.nb_layers_per_block.kind # "list" /\ a.nb_dense_block < 1
    THEN Exc("ValueError", "Number of dense layers per block must be greater than 1")
    ELSE IF a.activation \notin {"softmax", "sigmoid"}
    THEN Exc("ValueError", "activation must be one of softmax or sigmoid")
    ELSE NoErr

DenseNetFCNValidate(a) ==
    IF a.weights \notin {"None"}
    THEN Exc("ValueError", "The weights argument should be None")
    ELSE IF Lower(a.upsampling_type) \notin {"upsampling", "deconv", "subpixel"}
    THEN Exc("ValueError", "Parameter upsampling_type must be one of upsampling, deconv, or subpixel")
    ELSE IF Lower(a.upsampling_type) = "deconv" /\ IsNone(a.batchsize)
    THEN Exc("ValueError", "a fixed batch size must be provided in batchsize parameter")
    ELSE IF IsNone(a.input_shape)
    THEN Exc("ValueError", "For fully convolutional models, input shape must be supplied")
    ELSE IF a.nb_layers_per_block.kind # "list" /\ a.nb_dense_block < 1
    THEN Exc("ValueError", "Number of dense layers per block must be greater than 1")
    ELSE IF a.activation \notin {"softmax", "sigmoid"}
    THEN Exc("ValueError", "activation must be one of softmax or sigmoid")
    ELSE IF a.activation = "sigmoid" /\ a.classes # 1
    THEN Exc("ValueError", "sigmoid activation can only be used when classes = 1")
    ELSE NoErr

DenseNetFCN_Validate ==
    /\ pc = "DenseNetFCN"
    /\ args' = IF args.weights \in {"None"}
               THEN [args EXCEPT !.upsampling_type = Lower(args.upsampling_type)]
               ELSE args
    /\ IF DenseNetFCNValidate(args) # NoErr
       THEN Raise(DenseNetFCNValidate(args))
       ELSE /\ pc' = "fcn_input" /\ err' = err
    /\ UNCHANGED <<fn, env, graph, x, nb_layers, final_nb_layer,
                   nb_filter, block_idx, dense_calls, events>>
    /\ UNCHANGED <<emitted, ret, fcnvars>>

DenseNetFCN_Input == pc = "fcn_input" /\ MakeInput("call_fcn")

\* the positional arguments of the call of __create_fcn_dense_net
FcnCallArgs ==
    <<"classes", "img_input", "include_top", "nb_dense_block", "growth_rate",
      "reduction", "dropout_rate", "weight_decay", "nb_layers_per_block",
      "upsampling_conv", "upsampling_type", "batchsize", "init_conv_filters",
      "input_shape", "transition_dilation_rate", "transition_pooling",
      "transition_kernel_size", "activation", "input_shape">>

\* the parameters of __create_fcn_dense_net, in declaration order
FcnBuilderParams ==
    <<"nb_classes", "img_input", "include_top", "nb_dense_block", "growth_rate",
      "reduction", "dropout_rate", "weight_decay", "nb_layers_per_block",
      "nb_upsampling_conv", "upsampling_type", "batchsize", "init_conv_filters",
      "transition_dilation_rate", "transition_pooling", "transition_kernel_size",
      "activation", "input_shape">>

\* a Python call with positional arguments only
CallError(actuals, formals) ==
    IF Len(actuals) > Len(formals)
    THEN Exc("TypeError", "too many positional arguments")
    ELSE NoErr

\* x = __create_fcn_dense_net(...)
DenseNetFCN_Call ==
    /\ pc = "call_fcn"
    /\ IF CallError(FcnCallArgs, FcnBuilderParams) # NoErr
       THEN Raise(CallError(FcnCallArgs, FcnBuilderParams))
       ELSE /\ pc' = "create_fcn_dense_net" /\ err' = err
    /\ UNCHANGED <<fn, args, env, graph, x, nb_layers, final_nb_layer,
                   nb_filter, block_idx, dense_calls, events>>
    /\ UNCHANGED <<emitted, ret, fcnvars>>

\* ---------------------------------------------------------- __dense_block
DenseBlock_Call ==
    /\ pc = "__dense_block"
    /\ LET d == DenseBlock(graph, x, args.nb_layers, args.nb_filter,
                           args.growth_rate, args.bottleneck, args.dropout_rate,
                           args.grow_nb_filters)
       IN  /\ graph' = d.g
           /\ x' = d.x
           /\ nb_filter' = d.nb_filter
           /\ dense_calls' = Append(dense_calls, Called(args.nb_layers, d))
    /\ pc' = "block_done"
    /\ UNCHANGED <<fn, args, env, err, nb_layers, final_nb_layer, block_idx, events>>
    /\ UNCHANGED <<emitted, ret, fcnvars>>

\* ------------------------------------------------ __create_fcn_dense_net
\* direct calls of the FCN builder with every parameter bound by its name;
\* a dense block has at least two conv blocks, so that every merge has at
\* least two inputs
FcnLayerSpecs(nb) ==
    {IntLayers(n) : n \in 2..MaxFcnLayers}
      \cup {ListLayers("list", l) : l \in [1..(nb + 1) -> 2..MaxFcnLayers]}
      \cup {ListLayers("tuple", <<2>>)}

Shape(rows, cols, e) ==
    IF e.image_data_format = "channels_first" THEN <<3, rows, cols>>
    ELSE <<rows, cols, 3>>

FcnBuilderArgs(nb, e) ==
    {[DefaultArgs EXCEPT !.weights = "None", !.depth = None, !.growth_rate = 16,
                         !.classes = 2, !.batchsize = Some(1),
                         !.nb_dense_block = nb, !.nb_layers_per_block = c[1],
                         !.upsampling_type = c[2], !.include_top = c[3],
                         !.reduction = c[4], !.upsampling_conv = c[5],
                         !.input_shape = Some(Shape(32, c[6], e))] :
        c \in FcnLayerSpecs(nb) \X {"upsampling", "deconv", "subpixel"} \X BOOLEAN
              \X {0, 50} \X {128, 10} \X {32, 64}}

InitFcnBuilder ==
    \E nb \in 1..MaxFcnBlocks, e \in Envs :
        /\ e.backend = "tensorflow"
        /\ \E a \in FcnBuilderArgs(nb, e) :
              Start("__create_fcn_dense_net", a, e, "create_fcn_dense_net",
                    <<Node("Input", <<>>, 3, "")>>)

\* rows, cols of input_shape
Rows(a, e) ==
    IF e.image_data_format = "channels_first" THEN Val(a.input_shape)[2]
    ELSE Val(a.input_shape)[1]

Cols(a, e) ==
    IF e.image_data_format = "channels_first" THEN Val(a.input_shape)[3]
    ELSE Val(a.input_shape)[2]

CreateFcnCheck(a) ==
    IF a.reduction # 0 /\ ~(a.reduction <= 100 /\ a.reduction > 0)
    THEN Exc("AssertionError", "reduction value must lie between 0.0 and 1.0")
    ELSE IF ~(a.upsampling_conv >= 12 /\ a.upsampling_conv % 4 = 0)
    THEN Exc("AssertionError", "Parameter upsampling_conv number of channels must be a positive number divisible by 4 and greater than 12")
    ELSE NoErr

CreateFcn_Check ==
    /\ pc = "create_fcn_dense_net"
    /\ IF CreateFcnCheck(args) # NoErr
       THEN Raise(CreateFcnCheck(args))
       ELSE /\ pc' = "fcn_nb_layers" /\ err' = err
    /\ UNCHANGED <<fn, args, env, graph, x, nb_layers, final_nb_layer,
                   nb_filter, block_idx, dense_calls, events>>
    /\ UNCHANGED <<emitted, ret, fcnvars>>

Reverse(s) == [i \in 1..Len(s) |-> s[Len(s) + 1 - i]]

\* nb_layers of the FCN builder: the list followed by its reverse without
\* the bottleneck entry, or 2 * nb_dense_block + 1 copies of the integer
FcnLayersOf(a) ==
    IF IsListOrTuple(a.nb_layers_per_block)
    THEN a.nb_layers_per_block.items \o Tail(Reverse(a.nb_layers_per_block.items))
    ELSE Repeat(a.nb_layers_per_block.val, 2 * a.nb_dense_block + 1)

CreateFcn_Layers ==
    /\ pc = "fcn_nb_layers"
    /\ IF /\ IsListOrTuple(args.nb_layers_per_block)
          /\ Len(args.nb_layers_per_block.items) # args.nb_dense_block + 1
       THEN /\ Raise(Exc("AssertionError", "list size must be (nb_dense_block + 1)"))
            /\ UNCHANGED <<nb_layers, bottleneck_nb_layers>>
       ELSE /\ nb_layers' = FcnLayersOf(args)
            /\ bottleneck_nb_layers' =
                  IF IsListOrTuple(args.nb_layers_per_block)
                  THEN Last(args.nb_layers_per_block.items)
                  ELSE args.nb_layers_per_block.val
            /\ pc' = "fcn_initial_conv" /\ err' = err
    /\ UNCHANGED <<fn, args, env, graph, x, final_nb_layer, nb_filter, block_idx,
                   dense_calls, events, emitted, ret, skip_list, concat_list,
                   out_shape, up_calls>>

CreateFcn_InitialConv ==
    /\ pc = "fcn_initial_conv"
    /\ graph' = Apply(graph, "Conv2D", <<x>>, args.init_conv_filters, "3x3")
    /\ x' = Len(graph')
    /\ nb_filter' = args.init_conv_filters
    /\ skip_list' = <<>>
    /\ block_idx' = 0
    /\ emitted' = Append(emitted, Emit("initial_conv", Len(graph) + 1, Len(graph')))
    /\ pc' = "fcn_down"
    /\ UNCHANGED <<fn, args, env, err, nb_layers, final_nb_layer, dense_calls,
                   events, ret, concat_list, out_shape, up_calls,
                   bottleneck_nb_layers>>

\* one pass of the loop that adds a dense block and a transition down block
CreateFcn_Down ==
    /\ pc = "fcn_down"
    /\ block_idx < args.nb_dense_block
    /\ LET d == DenseBlock(graph, x, nb_layers[block_idx + 1], nb_filter,
                           args.growth_rate, FALSE, args.dropout_rate, TRUE)
           t == TransitionBlock(d.g, d.x, d.nb_filter, Compression(args),
                                args.dropout_rate, "avg")
       IN  /\ graph' = t.g
           /\ x' = Len(t.g)
           /\ skip_list' = Append(skip_list, d.x)
           /\ nb_filter' = TruncDiv(d.nb_filter * Compression(args), 100)
           /\ dense_calls' = Append(dense_calls, Called(nb_layers[block_idx + 1], d))
           /\ emitted' = emitted
                 \o <<Emit("down_dense_block", Len(graph) + 1, Len(d.g)),
                      Emit("transition_block", Len(d.g) + 1, Len(t.g))>>
    /\ block_idx' = block_idx + 1
    /\ UNCHANGED <<fn, args, env, pc, err, nb_layers, final_nb_layer, events, ret,
                   concat_list, out_shape, up_calls, bottleneck_nb_layers>>

\* out_shape = [batchsize, nb_filter, rows // 16, cols // 16] or channels last
InitialOutShape(a, e, filters) ==
    IF e.image_data_format = "channels_first"
    THEN <<a.batchsize, filters, Rows(a, e) \div 16, Cols(a, e) \div 16>>
    ELSE <<a.batchsize, Rows(a, e) \div 16, Cols(a, e) \div 16, filters>>

\* the bottleneck dense block, the reversal of the skip list and out_shape
CreateFcn_Bottleneck ==
    /\ pc = "fcn_down"
    /\ ~(block_idx < args.nb_dense_block)
    /\ LET d == DenseBlock(graph, x, bottleneck_nb_layers, nb_filter,
                           args.growth_rate, FALSE, args.dropout_rate, TRUE)
       IN  /\ graph' = d.g
           /\ nb_filter' = d.nb_filter
           /\ concat_list' = d.x_list
           /\ dense_calls' = Append(dense_calls, Called(bottleneck_nb_layers, d))
           /\ emitted' = Append(emitted,
                                Emit("bottleneck_dense_block", Len(graph) + 1, Len(d.g)))
           /\ out_shape' = InitialOutShape(args, env, d.nb_filter)
    /\ skip_list' = Reverse(skip_list)
    /\ block_idx' = 0
    /\ pc' = "fcn_up"
    /\ UNCHANGED <<fn, args, env, err, x, nb_layers, final_nb_layer, events, ret,
                   up_calls, bottleneck_nb_layers>>

\* __transition_up_block: the output tensor is the last node of the result
TransitionUpBlock(g, ip, nb_filters, type, output_shape) ==
    IF type = "upsampling"
    THEN Stack(g, ip, <<Layer("UpSampling2D", Ch(g, ip), "2x")>>)
    ELSE IF type = "subpixel"
    THEN Stack(g, ip, <<Layer("Conv2D", nb_filters, "3x3"),
                        Layer("SubPixelUpscaling", nb_filters \div 4, "2x"),
                        Layer("Conv2D", nb_filters, "3x3")>>)
    ELSE Stack(g, ip, <<Layer("Conv2DTranspose", nb_filters, "2x")>>)

\* out_shape with its channel entry set to n_filters_keep
WithChannels(shape, e, n) ==
    IF e.image_data_format = "channels_first" THEN [shape EXCEPT ![2] = n]
    ELSE [shape EXCEPT ![4] = n]

\* out_shape with its two spatial entries doubled
Doubled(shape, e) ==
    IF e.image_data_format = "channels_first"
    THEN [shape EXCEPT ![3] = 2 * @, ![4] = 2 * @]
    ELSE [shape EXCEPT ![2] = 2 * @, ![3] = 2 * @]

\* one pass of the loop that adds a transition up block and a dense block
CreateFcn_Up ==
    /\ pc = "fcn_up"
    /\ block_idx < args.nb_dense_block
    /\ LET n_filters_keep ==
               args.growth_rate * nb_layers[args.nb_dense_block + block_idx + 1]
           handed == WithChannels(out_shape, env, n_filters_keep)
           g1 == Merge(graph, Tail(concat_list))
           g2 == TransitionUpBlock(g1, Len(g1), n_filters_keep,
                                   args.upsampling_type, handed)
           g3 == Merge(g2, <<Len(g2), skip_list[block_idx + 1]>>)
           d == DenseBlock(g3, Len(g3), nb_layers[args.nb_dense_block + block_idx + 2],
                           args.growth_rate, args.growth_rate, FALSE,
                           args.dropout_rate, FALSE)
       IN  /\ graph' = d.g
           /\ x' = Len(g3)
           /\ out_shape' = Doubled(handed, env)
           /\ nb_filter' = d.nb_filter
           /\ concat_list' = d.x_list
           /\ up_calls' = Append(up_calls,
                                 [l |-> Len(g1), output_shape |-> handed,
                                  t |-> Len(g2), skip |-> skip_list[block_idx + 1]])
           /\ dense_calls' = Append(dense_calls,
                  Called(nb_layers[args.nb_dense_block + block_idx + 2], d))
           /\ emitted' = emitted
                 \o <<Emit("transition_up_block", Len(graph) + 1, Len(g2)),
                      Emit("skip_merge", Len(g3), Len(g3)),
                      Emit("up_dense_block", Len(g3) + 1, Len(d.g))>>
    /\ block_idx' = block_idx + 1
    /\ UNCHANGED <<fn, args, env, pc, err, nb_layers, final_nb_layer, events, ret,
                   skip_list, bottleneck_nb_layers>>

\* the names __create_fcn_dense_net can read: its parameters, its locals and
\* the names of the module
FcnBuilderScope ==
    {FcnBuilderParams[i] : i \in 1..Len(FcnBuilderParams)}
      \cup {"concat_axis", "rows", "cols", "nb_layers", "bottleneck_nb_layers",
            "rev_layers", "compression", "x", "nb_filter", "skip_list",
            "block_idx", "concat_list", "out_shape", "n_filters_keep", "l", "t",
            "channel", "row", "col"}
      \cup Imported

\* `if include_top and top is 'classification':` and `return x`
CreateFcn_Top ==
    /\ pc = "fcn_up"
    /\ ~(block_idx < args.nb_dense_block)
    /\ IF args.include_top /\ "top" \notin FcnBuilderScope
       THEN /\ Raise(Exc("NameError", "name 'top' is not defined"))
            /\ UNCHANGED <<graph, x, ret, emitted>>
       ELSE /\ graph' = IF args.include_top /\ args.top = "classification"
                        THEN Stack(graph, x,
                                   <<Layer("Conv2D", args.classes, "1x1"),
                                     Layer("Reshape", args.classes, ""),
                                     Layer("Activation", args.classes, args.activation),
                                     Layer("Reshape", args.classes, "")>>)
                        ELSE graph
            /\ x' = IF graph' = graph THEN x ELSE Len(graph')
            /\ emitted' = IF graph' = graph THEN emitted
                          ELSE Append(emitted, Emit("top", Len(graph) + 1, Len(graph')))
            /\ ret' = Some(x')
            /\ pc' = "fcn_returned" /\ err' = err
    /\ UNCHANGED <<fn, args, env, nb_layers, final_nb_layer, nb_filter, block_idx,
                   dense_calls, events, skip_list, concat_list, out_shape,
                   up_calls, bottleneck_nb_layers>>

NextFcnBuilder ==
    \/ CreateFcn_Check
    \/ CreateFcn_Layers
    \/ CreateFcn_InitialConv
    \/ CreateFcn_Down
    \/ CreateFcn_Bottleneck
    \/ CreateFcn_Up
    \/ CreateFcn_Top

\* --------------------------------------------------------- specifications
NextDenseNet ==
    \/ DenseNet_Validate
    \/ DenseNet_Input
    \/ CreateDenseNet_Check
    \/ CreateDenseNet_Layers
    \/ CreateDenseNet_InitialConv
    \/ CreateDenseNet_Block
    \/ CreateDenseNet_LastBlock
    \/ CreateDenseNet_Top
    \/ DenseNet_Model
    \/ DenseNet_LoadWeights

NextFcn ==
    \/ DenseNetFCN_Validate
    \/ DenseNetFCN_Input
    \/ DenseNetFCN_Call

Next == NextDenseNet \/ NextFcn \/ DenseBlock_Call \/ NextFcnBuilder

Init == InitArch \/ InitCall \/ InitFcn \/ InitBlock \/ InitFcnBuilder

Spec == Init /\ [][Next]_vars

\* DenseNet over the architecture hyperparameters
SpecArch == InitArch /\ [][NextDenseNet]_vars

\* DenseNet and DenseNetFCN over the validated keywords and the environment
SpecCall == (InitCall \/ InitFcn) /\ [][NextDenseNet \/ NextFcn]_vars

\* __dense_block as a function of its arguments
SpecBlock == InitBlock /\ [][DenseBlock_Call]_vars

\* __create_fcn_dense_net called with every parameter bound by its name
SpecFcnBuilder == InitFcnBuilder /\ [][NextFcnBuilder]_vars

\* ------------------------------------------------------------ properties
\* the builder has run past its argument assertions (lines 565-570)
PastCheck == fn = "DenseNet" /\ pc \notin {"DenseNet", "input", "create_dense_net"}

\* the builder has emitted the whole network
Built == fn = "DenseNet" /\ pc \in {"Model", "load_weights", "returned"}

DepthAssertion == Exc("AssertionError", "Depth must be nb_dense_block * N + 4")

\* C1: when depth is not None the builder accepts depth exactly when
\* depth = nb_dense_block * N + 4 for some integer N and fails its depth
\* assertion for every other depth, whatever nb_dense_block is.
C1_DepthIsBlockMultiplePlus4 ==
    (PastCheck /\ ~IsNone(args.depth)) =>
        ((err # DepthAssertion) <=>
            \E N \in -MaxDepth..MaxDepth :
                Val(args.depth) = args.nb_dense_block * N + 4)

\* layers that carry weights of their own in the layer count of the paper
Weighted(g) == Cardinality({i \in 1..Len(g) : g[i].op \in {"Conv2D", "Dense"}})

\* C2: with nb_layers_per_block = -1, nb_dense_block = 3, bottleneck = False
\* and the classification top, the built graph of every accepted depth has
\* exactly depth weighted layers (initial convolution, one convolution per
\* conv block, one per transition block, the final dense layer).
C2_DepthIsLayerCount ==
    (/\ Built
     /\ args.nb_layers_per_block = IntLayers(-1)
     /\ args.nb_dense_block = 3
     /\ ~args.bottleneck
     /\ args.include_top /\ args.top = "classification")
        => Weighted(graph) = Val(args.depth)

RECURSIVE IsSubseq(_, _)
IsSubseq(s, t) ==
    IF s = <<>> THEN TRUE
    ELSE IF t = <<>> THEN FALSE
    ELSE IF Head(s) = Head(t) THEN IsSubseq(Tail(s), Tail(t))
    ELSE IsSubseq(s, Tail(t))

\* the number of conv blocks of each dense block built so far, in order
ConvBlocksBuilt == [i \in 1..Len(dense_calls) |-> dense_calls[i].conv_blocks]

\* C3: a list or tuple nb_layers_per_block must have nb_dense_block + 1
\* entries (any other length fails an assertion before a layer is built), and
\* it is used as provided: the entries are, in list order, conv-block counts
\* of dense blocks of the built network, none of them ignored.
C3_ListUsedAsProvided ==
    (fn = "DenseNet" /\ IsListOrTuple(args.nb_layers_per_block)) =>
        /\ (Len(args.nb_layers_per_block.items) # args.nb_dense_block + 1
              => pc \notin {"initial_conv", "blocks", "top", "Model",
                            "load_weights", "returned"})
        /\ (Built => IsSubseq(args.nb_layers_per_block.items, ConvBlocksBuilt))

\* C4: with an integer nb_layers_per_block (positive, or -1 and derived from
\* depth) every dense block, the last one included, has the same number of
\* conv blocks, with and without bottleneck.
C4_SameLayersInEveryBlock ==
    (Built /\ args.nb_layers_per_block.kind = "int") =>
        \A i, j \in 1..Len(dense_calls) :
            dense_calls[i].conv_blocks = dense_calls[j].conv_blocks

\* the Concat nodes of the graph, in the order they were built
RECURSIVE ConcatsUpTo(_)
ConcatsUpTo(n) ==
    IF n = 0 THEN <<>>
    ELSE IF graph[n].op = "Concat" THEN Append(ConcatsUpTo(n - 1), n)
    ELSE ConcatsUpTo(n - 1)

\* in a graph holding the block input (node 1) and one dense block:
\* the first and the last node of the i-th conv block
ConvBlockFirst(i) == IF i = 1 THEN 2 ELSE ConcatsUpTo(Len(graph))[i - 1] + 1

ConvBlockOut(i) == ConcatsUpTo(Len(graph))[i] - 1

\* C5: in a dense block with nb_layers = n the i-th conv block reads the
\* concatenation of the block input with the outputs of conv blocks 1..i-1,
\* every conv block outputs growth_rate channels, the block output has
\* input channels + n * growth_rate channels, and the returned nb_filter is
\* nb_filter + n * growth_rate when grow_nb_filters holds, else nb_filter.
C5_DenseBlockConnectivity ==
    (fn = "__dense_block" /\ pc = "block_done") =>
        LET n == args.nb_layers IN
        /\ Len(ConcatsUpTo(Len(graph))) = n
        /\ \A i \in 1..n :
              LET ip == graph[ConvBlockFirst(i)].ins[1] IN
              /\ graph[ConvBlockFirst(i)].op = "BatchNormalization"
              /\ i = 1 => ip = 1
              /\ i > 1 => /\ graph[ip].op = "Concat"
                          /\ graph[ip].ins = <<1>> \o [j \in 1..(i - 1) |-> ConvBlockOut(j)]
              /\ graph[ConvBlockOut(i)].op \in {"Conv2D", "Dropout"}
              /\ graph[ConvBlockOut(i)].ch = args.growth_rate
        /\ Ch(graph, x) = args.in_channels + n * args.growth_rate
        /\ nb_filter = IF args.grow_nb_filters
                       THEN args.nb_filter + n * args.growth_rate
                       ELSE args.nb_filter

C5_Witness ==
    /\ fn = "__dense_block" /\ pc = "block_done"
    /\ args.nb_layers = MaxBlockLayers /\ args.bottleneck
    /\ ~args.grow_nb_filters /\ args.dropout_rate # 0
    /\ Len(ConcatsUpTo(Len(graph))) = MaxBlockLayers

\* C6: DenseNet raises ValueError when weights is neither 'cifar10' nor
\* None, and when weights is 'cifar10' with include_top and classes != 10;
\* in both cases no layer has been built and no weight file fetched.
C6_WeightsRejectedFirst ==
    (/\ fn = "DenseNet" /\ pc # "DenseNet"
     /\ \/ args.weights \notin {"cifar10", "None"}
        \/ args.weights = "cifar10" /\ args.include_top /\ args.classes # 10)
        => /\ pc = "raised" /\ err.type = "ValueError"
           /\ graph = <<>> /\ events = <<>>

C6_Witness ==
    /\ fn = "DenseNet" /\ pc = "raised" /\ err.type = "ValueError"
    /\ args.weights = "cifar10" /\ args.include_top /\ args.classes = 1
    /\ args.activation = "softmax" /\ graph = <<>> /\ events = <<>>

\* C7: DenseNet and DenseNetFCN raise ValueError when activation is neither
\* 'softmax' nor 'sigmoid' and when it is 'sigmoid' with classes != 1, so a
\* returned model with activation 'sigmoid' has classes = 1.
C7_ActivationValidated ==
    /\ (/\ fn \in {"DenseNet", "DenseNetFCN"}
        /\ pc \notin {"DenseNet", "DenseNetFCN"}
        /\ \/ args.activation \notin {"softmax", "sigmoid"}
           \/ args.activation = "sigmoid" /\ args.classes # 1)
           => (pc = "raised" /\ err.type = "ValueError")
    /\ (pc = "returned" /\ args.activation = "sigmoid") => args.classes = 1

C7_Witness ==
    /\ fn = "DenseNetFCN" /\ pc = "raised"
    /\ err = Exc("ValueError", "sigmoid activation can only be used when classes = 1")
    /\ args.activation = "sigmoid" /\ args.classes = 2

\* the node that ends the transition block whose convolution is node i
\* when no pooling follows: the convolution or its dropout
TransitionConvEnd(i) ==
    IF i + 1 <= Len(graph) /\ graph[i + 1].op = "Dropout" THEN i + 1 ELSE i

PoolAfter(i, op) ==
    /\ TransitionConvEnd(i) + 1 <= Len(graph)
    /\ graph[TransitionConvEnd(i) + 1].op = op
    /\ graph[TransitionConvEnd(i) + 1].cfg = "2x2/2"

\* C8: a transition block built with 'avg' ends with a 2x2 stride-2 average
\* pooling, with 'max' with a 2x2 stride-2 max pooling and with None with no
\* pooling, and in all three cases it is constructed without an error.
C8_TransitionPooling ==
    (fn = "DenseNet" /\ \E i \in 1..Len(graph) : graph[i].cfg = "transition") =>
        /\ err.type # "NameError"
        /\ \A i \in 1..Len(graph) :
              graph[i].cfg = "transition" =>
                 /\ args.transition_pooling = "avg" => PoolAfter(i, "AveragePooling2D")
                 /\ args.transition_pooling = "max" => PoolAfter(i, "MaxPooling2D")
                 /\ args.transition_pooling = "None" =>
                        ~(PoolAfter(i, "AveragePooling2D") \/ PoolAfter(i, "MaxPooling2D"))

EventsOf(op) == SelectSeq(events, LAMBDA ev : ev.op = op)

IndexOf(op) == CHOOSE i \in 1..Len(events) : events[i].op = op

\* C9: with weights = 'cifar10' and the hyperparameters of the published
\* model, the returned model had exactly one weight file fetched and loaded:
\* the Theano-ordering file for channels_first, else the TensorFlow-ordering
\* file, the no-top variant exactly when include_top is false; the kernels
\* are converted, after the load, exactly when the backend does not match
\* the data format (tensorflow/channels_first, theano/channels_last).
C9_OneWeightFileLoaded ==
    (/\ fn = "DenseNet" /\ pc = "returned" /\ args.weights = "cifar10"
     /\ args.depth = Some(40) /\ args.nb_dense_block = 3 /\ args.growth_rate = 12
     /\ args.nb_filter = 16 /\ ~args.bottleneck /\ args.reduction = 0
     /\ args.dropout_rate = 0 /\ args.weight_decay = 100)
        => /\ Len(EventsOf("get_file")) = 1
           /\ Len(EventsOf("load_weights")) = 1
           /\ EventsOf("get_file")[1].origin =
                 IF env.image_data_format = "channels_first"
                 THEN IF args.include_top THEN TH_WEIGHTS_PATH ELSE TH_WEIGHTS_PATH_NO_TOP
                 ELSE IF args.include_top THEN TF_WEIGHTS_PATH ELSE TF_WEIGHTS_PATH_NO_TOP
           /\ EventsOf("load_weights")[1].fname = EventsOf("get_file")[1].fname
           /\ IndexOf("get_file") < IndexOf("load_weights")
           /\ Len(EventsOf("convert_all_kernels_in_model")) =
                 IF \/ env.backend = "tensorflow" /\ env.image_data_format = "channels_first"
                    \/ env.backend = "theano" /\ env.image_data_format = "channels_last"
                 THEN 1 ELSE 0
           /\ EventsOf("convert_all_kernels_in_model") # <<>>
                 => IndexOf("load_weights") < IndexOf("convert_all_kernels_in_model")

C9_Witness ==
    /\ fn = "DenseNet" /\ pc = "returned" /\ args.weights = "cifar10"
    /\ args.depth = Some(40) /\ ~args.include_top
    /\ env.image_data_format = "channels_first" /\ env.backend = "tensorflow"
    /\ Len(EventsOf("get_file")) = 1
    /\ EventsOf("get_file")[1].origin = TH_WEIGHTS_PATH_NO_TOP
    /\ Len(EventsOf("convert_all_kernels_in_model")) = 1

\* the caller's expression that means the same as a builder parameter
Meaning(param) ==
    IF param = "nb_classes" THEN "classes"
    ELSE IF param = "nb_upsampling_conv" THEN "upsampling_conv"
    ELSE param

\* C10: a DenseNetFCN call that passes its own validation hands over to the
\* FCN graph builder without error: the call supplies no more arguments than
\* the builder accepts and binds every hyperparameter to the builder
\* parameter of the same meaning.
C10_FcnHandOff ==
    (fn = "DenseNetFCN" /\ pc \notin {"DenseNetFCN", "fcn_input", "call_fcn"}) =>
        \/ pc = "raised" /\ err.type = "ValueError" /\ graph = <<>>
        \/ /\ err = NoErr
           /\ Len(FcnCallArgs) <= Len(FcnBuilderParams)
           /\ \A i \in 1..Len(FcnCallArgs) :
                 FcnCallArgs[i] = Meaning(FcnBuilderParams[i])

\* the order the claim gives for a network of n dense blocks
ExpectedOrder(n, with_top) ==
    <<"initial_conv">>
      \o [i \in 1..(2 * n - 1) |-> IF i % 2 = 1 THEN "dense_block" ELSE "transition_block"]
      \o <<"bn_relu">>
      \o (IF with_top THEN <<"top">> ELSE <<>>)

IsPrefix(s, t) == Len(s) <= Len(t) /\ s = SubSeq(t, 1, Len(s))

EmittedOrder == [i \in 1..Len(emitted) |-> emitted[i].what]

\* the nodes of the i-th emitted block
NodesOf(i) == emitted[i].first..emitted[i].last

TransitionConvs(i) == {n \in NodesOf(i) : graph[n].cfg = "transition"}

\* the emitted blocks lie one after the other in the graph, after the input,
\* and each holds the layers of its kind
EmittedInGraph ==
    /\ \A i \in 1..Len(emitted) :
          /\ emitted[i].first = IF i = 1 THEN 2 ELSE emitted[i - 1].last + 1
          /\ emitted[i].what = "initial_conv" =>
                /\ emitted[i].last = emitted[i].first
                /\ graph[emitted[i].first].op = "Conv2D"
                /\ graph[emitted[i].first].ins = <<1>>
          /\ emitted[i].what = "transition_block" =>
                Cardinality(TransitionConvs(i)) = 1
          /\ emitted[i].what = "dense_block" =>
                /\ TransitionConvs(i) = {}
                /\ Cardinality({n \in NodesOf(i) : graph[n].op = "Concat"})
                      = dense_calls[i \div 2].conv_blocks
          /\ emitted[i].what = "bn_relu" =>
                /\ graph[emitted[i].first].op = "BatchNormalization"
                /\ graph[emitted[i].last].op = "Activation"
                /\ graph[emitted[i].last].cfg = "relu"
    /\ emitted # <<>> => emitted[Len(emitted)].last = Len(graph)

\* C12: for every nb_dense_block >= 1 the DenseNet builder emits the initial
\* convolution, then nb_dense_block dense blocks and nb_dense_block - 1
\* transition blocks strictly alternating dense, transition, ..., dense, then
\* the final batch normalisation and ReLU, then the optional top; the last
\* dense block is never followed by a transition block.
C12_BlockOrder ==
    (fn = "DenseNet" /\ args.nb_dense_block >= 1) =>
        LET expected == ExpectedOrder(args.nb_dense_block,
                                      args.include_top /\ args.top # "None")
        IN  /\ IsPrefix(EmittedOrder, expected)
            /\ pc \in {"blocks", "top", "Model", "load_weights", "returned"}
                  => EmittedInGraph
            /\ Built => /\ EmittedOrder = expected
                        /\ Len(dense_calls) = args.nb_dense_block

C12_Witness ==
    /\ Built /\ args.nb_dense_block = MaxDenseBlock /\ ~args.include_top
    /\ Len(emitted) = 2 * MaxDenseBlock + 1
    /\ \A i \in 1..Len(dense_calls) : dense_calls[i].conv_blocks >= 1
    /\ emitted[Len(emitted) - 1].what = "dense_block"


\* ---------------------------------------------------------------- C11
\* the FCN builder has run through its last upsampling pass and has left it
FcnPastUp ==
    /\ fn = "__create_fcn_dense_net"
    /\ Len(up_calls) = args.nb_dense_block
    /\ pc # "fcn_up"

\* the returned tensor ends with the 1x1 convolution with nb_classes filters
\* followed by the chosen activation
EndsWithTop ==
    /\ ret # None
    /\ \E c \in 1..Len(graph), a \in 1..Len(graph) :
          /\ graph[c].op = "Conv2D" /\ graph[c].cfg = "1x1"
          /\ graph[c].ch = args.classes
          /\ graph[a].op = "Activation" /\ graph[a].cfg = args.activation
          /\ c < a /\ a <= Val(ret)
          /\ \A n \in (c + 1)..Val(ret) : graph[n].ins = <<n - 1>>

\* C11: in the FCN graph builder, run with include_top = True the builder
\* completes without error and the returned tensor ends with the 1x1
\* convolution with nb_classes filters followed by the chosen activation; run
\* with include_top = False it returns a tensor without such a top.
C11_FcnIncludeTop ==
    FcnPastUp =>
        /\ pc = "fcn_returned" /\ err = NoErr
        /\ IF args.include_top THEN EndsWithTop
           ELSE /\ ret = Some(x)
                /\ \A n \in 1..Len(graph) : graph[n].cfg # "1x1"

\* ---------------------------------------------------------------- C13
\* rows and columns of a tensor of the graph: pooling halves them, the three
\* upsampling layers double them, every other layer keeps them
RECURSIVE SpatialOf(_, _, _)
SpatialOf(g, t, input) ==
    IF g[t].op = "Input" THEN input
    ELSE LET s == SpatialOf(g, g[t].ins[1], input)
         IN  IF g[t].op \in {"AveragePooling2D", "MaxPooling2D"}
             THEN <<s[1] \div 2, s[2] \div 2>>
             ELSE IF g[t].op \in {"UpSampling2D", "SubPixelUpscaling",
                                  "Conv2DTranspose"}
             THEN <<2 * s[1], 2 * s[2]>>
             ELSE s

Spatial(t) == SpatialOf(graph, t, <<Rows(args, env), Cols(args, env)>>)

\* the spatial entries and the channel entry of an output shape
SpatialEntries(shape) ==
    IF env.image_data_format = "channels_first" THEN <<shape[3], shape[4]>>
    ELSE <<shape[2], shape[3]>>

ChannelEntry(shape) ==
    IF env.image_data_format = "channels_first" THEN shape[2] ELSE shape[4]

\* C13: in the FCN graph builder, with rows and columns divisible by
\* 2^nb_dense_block, the spatial size in the output shape handed to the k-th
\* transition-up block is twice the spatial size of that block's input
\* tensor, which is the spatial size of the skip connection it is then
\* concatenated with, and its channel entry is the number of channels of
\* the feature maps being upsampled.
C13_OutShapeOfTransitionUp ==
    (/\ fn = "__create_fcn_dense_net"
     /\ Rows(args, env) % (2 ^ args.nb_dense_block) = 0
     /\ Cols(args, env) % (2 ^ args.nb_dense_block) = 0) =>
        \A k \in 1..Len(up_calls) :
            LET u == up_calls[k]
                s == Spatial(u.l)
            IN  /\ SpatialEntries(u.output_shape) = <<2 * s[1], 2 * s[2]>>
                /\ SpatialEntries(u.output_shape) = Spatial(u.skip)
                /\ ChannelEntry(u.output_shape) = Ch(graph, u.l)

\* ---------------------------------------------------------------- C14
\* the nodes the nodes of set depend on, among the nodes 1..i, and set
RECURSIVE DependsOn(_, _, _)
DependsOn(g, i, set) ==
    IF i = 0 THEN set
    ELSE DependsOn(g, i - 1,
                   IF i \in set
                   THEN set \cup {g[i].ins[k] : k \in 1..Len(g[i].ins)}
                   ELSE set)

DenseBlockKinds == {"down_dense_block", "bottleneck_dense_block", "up_dense_block"}

\* C14: in the FCN graph builder the returned tensor depends on every dense
\* block that was built: the nb_dense_block downsampling dense blocks, the
\* bottleneck dense block and the nb_dense_block upsampling dense blocks,
\* the last one included, each lie on a path to the returned tensor.
C14_ReturnDependsOnEveryDenseBlock ==
    (fn = "__create_fcn_dense_net" /\ pc = "fcn_returned") =>
        LET deps == DependsOn(graph, Len(graph), {Val(ret)})
        IN  /\ Cardinality({i \in 1..Len(emitted) :
                              emitted[i].what \in DenseBlockKinds})
                  = 2 * args.nb_dense_block + 1
            /\ \A i \in 1..Len(emitted) :
                  emitted[i].what \in DenseBlockKinds
                      => NodesOf(i) \cap deps # {}

====
